---- MODULE Spec2Model ----
(***************************************************************************)
(* Model of app.py: the Streamlit script that loads the weekly sale/rent   *)
(* index sheets and the sale/rent change sheets of one workbook, joins     *)
(* them per (date, region), and on every script run filters the joined     *)
(* tables by the sidebar's date window and region selection to draw the    *)
(* index trajectory chart and the change bar chart.                        *)
(*                                                                         *)
(* Dates are calendar days 1..MaxDate, regions are the column names        *)
(* 1..NumRegions.  A missing cell is NaN.                                   *)
(***************************************************************************)
EXTENDS Integers, Sequences, FiniteSets

(* ------------------------------ bounds --------------------------------- *)
\* number of region columns of every sheet
NumRegions == 2
\* calendar days of the render specification's sheets
MaxDate == 3
\* calendar days of the loader specification's sheets
MaxSheetDate == 2
\* data rows of a sheet
MaxRows == 2
\* cap of the counters of loader-body executions
MaxLoads == 2

(* ------------------------- values and sheets --------------------------- *)
\* pandas' missing value (NaN / NaT)
NaN == -1
\* what fillna(0) writes
Zero == 0

Regions == 1..NumRegions
Dates == 1..MaxDate
SheetIds == {NaN} \cup (1..MaxSheetDate)

SeqsUpTo(S, n) == UNION {[1..k -> S] : k \in 0..n}

\* The figure a sheet of the given kind holds for (date, region); every
\* figure is non-zero, so a filled gap is recognisable.
KindBase(kind) ==
  CASE kind = "sale" -> 100
    [] kind = "rent" -> 200
    [] kind = "sale_chg" -> 300
    [] kind = "rent_chg" -> 400

CellValue(kind, id, r) == KindBase(kind) + 10 * (IF id = NaN THEN 0 ELSE id) + r

\* A parsed sheet with the identifying column: one row per entry of ids;
\* with gap, region 1 has no figure in the first row.
MakeSheet(kind, ids, gap) ==
  [parsed |-> TRUE, has_id |-> TRUE,
   rows |-> [i \in 1..Len(ids) |->
              [id |-> ids[i],
               cells |-> [r \in Regions |->
                           IF gap /\ i = 1 /\ r = 1 THEN NaN
                           ELSE CellValue(kind, ids[i], r)]]]]

\* A sheet read_excel cannot read (missing sheet, not a grid).
Unparseable == [parsed |-> FALSE, has_id |-> FALSE, rows |-> <<>>]

\* The same sheet without its identifying column.
WithoutId(sheet) ==
  [sheet EXCEPT !.has_id = FALSE,
                !.rows = [i \in 1..Len(sheet.rows) |-> [sheet.rows[i] EXCEPT !.id = NaN]]]

PairStatus == {"ok", "unparseable", "sale_no_id", "rent_no_id"}

SheetOf(kind, ids, gap, status) ==
  CASE status = "ok" -> MakeSheet(kind, ids, gap)
    [] status = "unparseable" -> Unparseable
    [] status = "sale_no_id" ->
         IF kind \in {"sale", "sale_chg"} THEN WithoutId(MakeSheet(kind, ids, gap))
         ELSE MakeSheet(kind, ids, gap)
    [] status = "rent_no_id" ->
         IF kind \in {"rent", "rent_chg"} THEN WithoutId(MakeSheet(kind, ids, gap))
         ELSE MakeSheet(kind, ids, gap)

\* The workbook file: the two index sheets and the two change sheets, the
\* change sheets on the same rows as the index sheets.
MakeWorkbook(sIds, rIds, sGap, rGap, idxStatus, chgStatus) ==
  [sale |-> SheetOf("sale", sIds, sGap, idxStatus),
   rent |-> SheetOf("rent", rIds, rGap, idxStatus),
   sale_chg |-> SheetOf("sale_chg", sIds, sGap, chgStatus),
   rent_chg |-> SheetOf("rent_chg", rIds, rGap, chgStatus)]

\* Workbooks of the loader specification: independent sale and rent rows,
\* rows without a date, gaps; and the malformed workbooks.
LoadWorkbooks ==
  {MakeWorkbook(s, r, sg, rg, "ok", "ok") :
     s \in SeqsUpTo(SheetIds, MaxRows), r \in SeqsUpTo(SheetIds, MaxRows),
     sg \in BOOLEAN, rg \in BOOLEAN}
  \cup {MakeWorkbook(<<1, NaN>>, <<NaN, 1>>, FALSE, TRUE, a, b) : a \in PairStatus, b \in PairStatus}

\* Workbooks of the render specification: all four sheets on one date axis.
RenderWorkbooks ==
  {MakeWorkbook(ax, ax, FALSE, FALSE, a, b) :
     ax \in SeqsUpTo(Dates, MaxRows), a \in PairStatus, b \in PairStatus}

(* --------------------------- pandas operators -------------------------- *)
\* DataFrame.dropna(subset=['구분']): the rows whose identifying cell is present
DropNa(rows) == SelectSeq(rows, LAMBDA row : row.id # NaN)

FillCell(v) == IF v = NaN THEN Zero ELSE v

\* DataFrame.fillna(0): every missing cell, the identifying one included
FillNa(rows) ==
  [i \in 1..Len(rows) |->
    [id |-> FillCell(rows[i].id),
     cells |-> [r \in Regions |-> FillCell(rows[i].cells[r])]]]

\* DataFrame.melt(id_vars=['날짜'], var_name='지역'): one record per
\* (row, region column), column by column.
Melt(rows) ==
  [k \in 1..(Len(rows) * NumRegions) |->
    LET c == ((k - 1) \div Len(rows)) + 1
        i == ((k - 1) % Len(rows)) + 1
    IN [date |-> rows[i].id, region |-> c, value |-> rows[i].cells[c]]]

\* Merge as a left join: an unmatched left row is kept, its rent side filled
RECURSIVE MergeLeft(_, _)
MergeLeft(left, right) ==
  IF left = <<>> THEN <<>>
  ELSE LET h == Head(left)
           m == SelectSeq(right, LAMBDA x : x.date = h.date /\ x.region = h.region)
       IN (IF m = <<>>
           THEN <<[date |-> h.date, region |-> h.region, sale |-> h.value, rent |-> Zero]>>
           ELSE [k \in 1..Len(m) |->
                  [date |-> h.date, region |-> h.region, sale |-> h.value, rent |-> m[k].value]])
          \o MergeLeft(Tail(left), right)

\* pd.merge(left, right, on=['날짜', '지역']): inner join, the left keys'
\* order, every matching pair.
RECURSIVE Merge(_, _)
Merge(left, right) ==
  IF left = <<>> THEN <<>>
  ELSE LET h == Head(left)
           m == SelectSeq(right, LAMBDA x : x.date = h.date /\ x.region = h.region)
       IN [k \in 1..Len(m) |->
             [date |-> h.date, region |-> h.region, sale |-> h.value, rent |-> m[k].value]]
          \o Merge(Tail(left), right)

\* pd.to_datetime on the joined date column: read_excel has parsed the
\* date cells to timestamps already, each keeps its calendar day.
ToDatetime(df) == [i \in 1..Len(df) |-> [df[i] EXCEPT !.date = df[i].date]]

(* ------------------------------ loaders -------------------------------- *)
\* load_data, lines 22-30: the sale sheet is cleaned of rows without a date,
\* the rent sheet is only filled: fillna(0) writes 0 into the date cell of a
\* rent row without a date, and the merge compares that key by value.
NormalizeSale(sheet) == Melt(FillNa(DropNa(sheet.rows)))
NormalizeRent(sheet) == Melt(FillNa(sheet.rows))

\* load_change_data, lines 46-53
NormalizeSaleChg(sheet) == Melt(FillNa(DropNa(sheet.rows)))
NormalizeRentChg(sheet) == Melt(FillNa(DropNa(sheet.rows)))

Join(a, b) == ToDatetime(Merge(a, b))

\* LoadDataResult without the failure on a missing identifying column
LoadDataResultNoKeyError(wb) ==
  IF ~wb.sale.parsed \/ ~wb.rent.parsed THEN "stopped" ELSE "ok"

\* How load_data ends on a workbook: "ok" (returns df), "stopped"
\* (read_excel raised: st.error, st.stop), "raised" (KeyError '구분' from
\* dropna on the sale sheet, or KeyError '날짜' from melt on the rent sheet).
LoadDataResult(wb) ==
  IF ~wb.sale.parsed \/ ~wb.rent.parsed THEN "stopped"
  ELSE IF ~wb.sale.has_id \/ ~wb.rent.has_id THEN "raised"
  ELSE "ok"

\* How load_change_data ends: "ok" (returns df_chg), "none" (read_excel
\* raised: st.error, return None), "raised" (KeyError '구분' from dropna).
LoadChangeDataResult(wb) ==
  IF ~wb.sale_chg.parsed \/ ~wb.rent_chg.parsed THEN "none"
  ELSE IF ~wb.sale_chg.has_id \/ ~wb.rent_chg.has_id THEN "raised"
  ELSE "ok"

(* ------------------------- the script's operators ---------------------- *)
Range(s) == {s[i] : i \in DOMAIN s}

\* comparisons of a date column with a bound; any comparison with NaT is False
Ge(d, bound) == bound # NaN /\ d >= bound
Le(d, bound) == bound # NaN /\ d <= bound

\* df["날짜"].min() / .max(): NaT on an empty table
MinDate(df) ==
  IF df = <<>> THEN NaN
  ELSE CHOOSE d \in {df[i].date : i \in DOMAIN df} : \A i \in DOMAIN df : d <= df[i].date
MaxDateOf(df) ==
  IF df = <<>> THEN NaN
  ELSE CHOOSE d \in {df[i].date : i \in DOMAIN df} : \A i \in DOMAIN df : d >= df[i].date

\* df["지역"].unique(): the regions in order of first appearance
RECURSIVE Unique(_)
Unique(df) ==
  IF df = <<>> THEN <<>>
  ELSE LET front == Unique(SubSeq(df, 1, Len(df) - 1))
           r == df[Len(df)].region
       IN IF r \in Range(front) THEN front ELSE Append(front, r)

\* what st.sidebar.date_input can hand back: a (start, end) pair inside
\* [min_value, max_value], or one date while the user is still picking
DateInputValues(df) ==
  IF df = <<>> THEN {<<NaN, NaN>>}
  ELSE LET days == MinDate(df)..MaxDateOf(df)
       IN {p \in days \X days : p[1] <= p[2]} \cup {<<s>> : s \in days}

\* what st.sidebar.multiselect can hand back: options in the order picked
MultiselectValues(options) ==
  {s \in SeqsUpTo(Range(options), Len(options)) :
     \A i, j \in DOMAIN s : i # j => s[i] # s[j]}

\* px.colors.qualitative.Plotly
Plotly ==
  <<"#636EFA", "#EF553B", "#00CC96", "#AB63FA", "#FFA15A",
    "#19D3F3", "#FF6692", "#B6E880", "#FF97FF", "#FECB52">>

\* what the colour pickers can hand back: every picker left at its palette
\* default, or every picker set by the user
PickerValues == {"default", "#000000"}

\* color_map, lines 86-87
ColorMap(regs, picked) ==
  [r \in Range(regs) |->
     IF picked = "default"
     THEN Plotly[(((CHOOSE i \in DOMAIN regs : regs[i] = r) - 1) % 10) + 1]
     ELSE picked]

\* Mask with the end of the window excluded
MaskEndExclusive(df, start, end, regs) ==
  SelectSeq(df, LAMBDA x : Ge(x.date, start) /\ x.date < end /\ x.region \in Range(regs))

\* Mask without the date window
MaskNoWindow(df, start, end, regs) ==
  SelectSeq(df, LAMBDA x : x.region \in Range(regs))

\* mask / mask_chg, lines 100-102 and 167-169
Mask(df, start, end, regs) ==
  SelectSeq(df, LAMBDA x : Ge(x.date, start) /\ Le(x.date, end) /\ x.region \in Range(regs))

\* Before with the dates descending
BeforeDescending(a, b, by) ==
  IF by = "region_date"
  THEN a.region < b.region \/ (a.region = b.region /\ a.date > b.date)
  ELSE a.date > b.date \/ (a.date = b.date /\ a.region < b.region)

\* the order of sort_values: by (region, date) or by (date, region)
Before(a, b, by) ==
  IF by = "region_date"
  THEN a.region < b.region \/ (a.region = b.region /\ a.date < b.date)
  ELSE a.date < b.date \/ (a.date = b.date /\ a.region < b.region)

\* DataFrame.sort_values on two columns, stable
RECURSIVE SortValues(_, _)
SortValues(df, by) ==
  IF df = <<>> THEN <<>>
  ELSE LET rest == SortValues(SubSeq(df, 1, Len(df) - 1), by)
           x == df[Len(df)]
           p == Cardinality({i \in DOMAIN rest : ~Before(x, rest[i], by)})
       IN SubSeq(rest, 1, p) \o <<x>> \o SubSeq(rest, p + 1, Len(rest))

\* DataFrame.empty
IsEmpty(df) == df = <<>>

\* rdf = df_sel[df_sel['지역'] == region]
RegionRows(df_sel, region) == SelectSeq(df_sel, LAMBDA x : x.region = region)

\* RegionTraces with the "recent" marker on the first row
RegionTracesRecentFirst(rdf, region, color) ==
  LET first == rdf[1]
  IN << [kind |-> "path", region |-> region, color |-> color,
         xs |-> [i \in DOMAIN rdf |-> rdf[i].sale],
         ys |-> [i \in DOMAIN rdf |-> rdf[i].rent],
         dates |-> [i \in DOMAIN rdf |-> rdf[i].date]],
        [kind |-> "recent", region |-> region, color |-> color,
         xs |-> <<first.sale>>, ys |-> <<first.rent>>, dates |-> <<>>],
        [kind |-> "START", region |-> region, color |-> "grey",
         xs |-> <<first.sale>>, ys |-> <<first.rent>>, dates |-> <<>>] >>

\* the three traces one region adds, lines 116-153
RegionTraces(rdf, region, color) ==
  LET last == rdf[Len(rdf)]
      first == rdf[1]
  IN << [kind |-> "path", region |-> region, color |-> color,
         xs |-> [i \in DOMAIN rdf |-> rdf[i].sale],
         ys |-> [i \in DOMAIN rdf |-> rdf[i].rent],
         dates |-> [i \in DOMAIN rdf |-> rdf[i].date]],
        [kind |-> "recent", region |-> region, color |-> color,
         xs |-> <<last.sale>>, ys |-> <<last.rent>>, dates |-> <<>>],
        [kind |-> "START", region |-> region, color |-> "grey",
         xs |-> <<first.sale>>, ys |-> <<first.rent>>, dates |-> <<>>] >>

\* the annotation at the last point, lines 127-134
RegionAnnotation(rdf, region, color) ==
  LET last == rdf[Len(rdf)]
  IN [region |-> region, x |-> last.sale, y |-> last.rent, color |-> color]

\* the loop over selected_regions, lines 110-153
RECURSIVE BuildFigure(_, _, _)
BuildFigure(df_sel, regs, colors) ==
  IF regs = <<>> THEN [traces |-> <<>>, annotations |-> <<>>]
  ELSE LET region == regs[Len(regs)]
           sofar == BuildFigure(df_sel, SubSeq(regs, 1, Len(regs) - 1), colors)
           rdf == RegionRows(df_sel, region)
           color == IF region \in DOMAIN colors THEN colors[region] ELSE "black"
       IN IF IsEmpty(rdf) THEN sofar
          ELSE [traces |-> sofar.traces \o RegionTraces(rdf, region, color),
                annotations |-> Append(sofar.annotations, RegionAnnotation(rdf, region, color))]

\* IndexChartResult without the test of df_sel.empty
IndexChartResultNoCheck(df_sel, regs, colors, dates) ==
  LET built == BuildFigure(df_sel, regs, colors)
  IN [warn |-> FALSE,
      fig |-> [present |-> TRUE, traces |-> built.traces,
               annotations |-> built.annotations, title |-> dates]]

\* lines 105-163: the warning, or the figure of the selected rows
IndexChartResult(df_sel, regs, colors, dates) ==
  IF IsEmpty(df_sel)
  THEN [warn |-> TRUE, fig |-> [present |-> FALSE, traces |-> <<>>, annotations |-> <<>>, title |-> <<>>]]
  ELSE LET built == BuildFigure(df_sel, regs, colors)
       IN [warn |-> FALSE,
           fig |-> [present |-> TRUE, traces |-> built.traces,
                    annotations |-> built.annotations, title |-> dates]]

\* df_bar, lines 176-181: the sale changes, then the rent changes
BarRows(df_chg_sel) ==
  [i \in DOMAIN df_chg_sel |->
     [date |-> df_chg_sel[i].date, region |-> df_chg_sel[i].region,
      series |-> "sale_chg", value |-> df_chg_sel[i].sale]]
  \o
  [i \in DOMAIN df_chg_sel |->
     [date |-> df_chg_sel[i].date, region |-> df_chg_sel[i].region,
      series |-> "rent_chg", value |-> df_chg_sel[i].rent]]

\* row_height * num_regions, lines 185-207
FigureHeight(regs) == (IF Len(regs) >= 8 THEN 350 ELSE 400) * Len(regs)

(* -------------------------------- state -------------------------------- *)
VARIABLES
  workbook,          \* the file "주간시계열.xlsx"
  cache_df,          \* st.cache_data entry of load_data(file_path)
  cache_chg,         \* st.cache_data entry of load_change_data(file_path)
  index_loads,       \* times the body of load_data has returned
  chg_loads,         \* times the body of load_change_data has returned
  pc,                \* the script run's position
  outcome,           \* "running", "done", "stopped" (st.stop), "raised"
  shown,             \* the messages on the page
  index_reads,       \* read_excel attempts on the index sheets in this run
  sale_melt, rent_melt, s_melt, r_melt,   \* the loaders' melted tables
  df, df_chg,        \* the script's globals
  selected_dates, selected_regions, color_map,
  fig, fig2          \* the charts handed to st.plotly_chart

vars ==
  <<workbook, cache_df, cache_chg, index_loads, chg_loads, pc, outcome, shown,
    index_reads, sale_melt, rent_melt, s_melt, r_melt, df, df_chg,
    selected_dates, selected_regions, color_map, fig, fig2>>

NotCached == [set |-> FALSE, value |-> <<>>]
NoChgCached == [set |-> FALSE, value |-> [present |-> FALSE, rows |-> <<>>]]
None == [present |-> FALSE, rows |-> <<>>]
Some(rows) == [present |-> TRUE, rows |-> rows]
NoFig == [present |-> FALSE, traces |-> <<>>, annotations |-> <<>>, title |-> <<>>]
NoFig2 == [present |-> FALSE, bars |-> <<>>, height |-> 0, title |-> <<>>]

\* the state a script run starts from
RunStart ==
  /\ pc = "load_data"
  /\ outcome = "running"
  /\ shown = {}
  /\ index_reads = 0
  /\ sale_melt = <<>> /\ rent_melt = <<>> /\ s_melt = <<>> /\ r_melt = <<>>
  /\ df = <<>> /\ df_chg = None
  /\ selected_dates = <<>> /\ selected_regions = <<>> /\ color_map = <<>>
  /\ fig = NoFig /\ fig2 = NoFig2

SessionStart ==
  /\ cache_df = NotCached /\ cache_chg = NoChgCached
  /\ index_loads = 0 /\ chg_loads = 0
  /\ RunStart

Init == workbook \in RenderWorkbooks /\ SessionStart

InitLoad == workbook \in LoadWorkbooks /\ SessionStart

\* CacheHit of a cache that never keeps an entry
CacheNever(cache) == FALSE

\* st.cache_data: is there an entry for this call
CacheHit(cache) == cache.set

(* ------------------------------- actions ------------------------------- *)
\* The page set-up, the logo and the title (lines 7-11, 89-98) change
\* nothing the script reads afterwards and have no action.
\* line 62, cache hit: df is the cached table
LoadDataHit ==
  /\ pc = "load_data" /\ CacheHit(cache_df)
  /\ df' = cache_df.value
  /\ pc' = "load_change_data"
  /\ UNCHANGED <<workbook, cache_df, cache_chg, index_loads, chg_loads, outcome, shown,
                 index_reads, sale_melt, rent_melt, s_melt, r_melt, df_chg,
                 selected_dates, selected_regions, color_map, fig, fig2>>

\* line 62, cache miss: the body of load_data, lines 14-34
LoadDataMiss ==
  /\ pc = "load_data" /\ ~CacheHit(cache_df) /\ index_loads < MaxLoads
  /\ index_reads' = index_reads + 1
  /\ LET res == LoadDataResult(workbook)
         sm == NormalizeSale(workbook.sale)
         rm == NormalizeRent(workbook.rent)
         joined == Join(sm, rm)
     IN CASE res = "stopped" ->
               /\ shown' = shown \cup {"load_error"}
               /\ outcome' = "stopped" /\ pc' = "end"
               /\ UNCHANGED <<cache_df, index_loads, sale_melt, rent_melt, df>>
          [] res = "raised" ->
               /\ outcome' = "raised" /\ pc' = "end"
               /\ sale_melt' = IF workbook.sale.has_id THEN sm ELSE sale_melt
               /\ UNCHANGED <<cache_df, index_loads, shown, rent_melt, df>>
          [] res = "ok" ->
               /\ sale_melt' = sm /\ rent_melt' = rm
               /\ df' = joined
               /\ cache_df' = [set |-> TRUE, value |-> joined]
               /\ index_loads' = index_loads + 1
               /\ pc' = "load_change_data"
               /\ UNCHANGED <<outcome, shown>>
  /\ UNCHANGED <<workbook, cache_chg, chg_loads, s_melt, r_melt, df_chg,
                 selected_dates, selected_regions, color_map, fig, fig2>>

\* line 65, cache hit; the cached st.error is replayed with a cached None
LoadChangeDataHit ==
  /\ pc = "load_change_data" /\ CacheHit(cache_chg)
  /\ df_chg' = cache_chg.value
  /\ shown' = IF cache_chg.value.present THEN shown ELSE shown \cup {"chg_load_error"}
  /\ pc' = "sidebar"
  /\ UNCHANGED <<workbook, cache_df, cache_chg, index_loads, chg_loads, outcome,
                 index_reads, sale_melt, rent_melt, s_melt, r_melt, df,
                 selected_dates, selected_regions, color_map, fig, fig2>>

\* line 65, cache miss: the body of load_change_data, lines 37-57
LoadChangeDataMiss ==
  /\ pc = "load_change_data" /\ ~CacheHit(cache_chg) /\ chg_loads < MaxLoads
  /\ LET res == LoadChangeDataResult(workbook)
         sm == NormalizeSaleChg(workbook.sale_chg)
         rm == NormalizeRentChg(workbook.rent_chg)
         joined == Join(sm, rm)
     IN CASE res = "none" ->
               /\ shown' = shown \cup {"chg_load_error"}
               /\ df_chg' = None
               /\ cache_chg' = [set |-> TRUE, value |-> None]
               /\ chg_loads' = chg_loads + 1
               /\ pc' = "sidebar"
               /\ UNCHANGED <<outcome, s_melt, r_melt>>
          [] res = "raised" ->
               /\ outcome' = "raised" /\ pc' = "end"
               /\ UNCHANGED <<cache_chg, chg_loads, shown, s_melt, r_melt, df_chg>>
          [] res = "ok" ->
               /\ s_melt' = sm /\ r_melt' = rm
               /\ df_chg' = Some(joined)
               /\ cache_chg' = [set |-> TRUE, value |-> Some(joined)]
               /\ chg_loads' = chg_loads + 1
               /\ pc' = "sidebar"
               /\ UNCHANGED <<outcome, shown>>
  /\ UNCHANGED <<workbook, cache_df, index_loads, index_reads, sale_melt, rent_melt, df,
                 selected_dates, selected_regions, color_map, fig, fig2>>

\* lines 69-87: the date range, the region selection, the colours
Sidebar ==
  /\ pc = "sidebar"
  /\ \E dates \in DateInputValues(df), regs \in MultiselectValues(Unique(df)),
        picked \in PickerValues :
       /\ selected_dates' = dates
       /\ IF Len(dates) # 2
          THEN /\ shown' = shown \cup {"sidebar_error"}
               /\ outcome' = "stopped" /\ pc' = "end"
               /\ UNCHANGED <<selected_regions, color_map>>
          ELSE /\ selected_regions' = regs
               /\ color_map' = ColorMap(regs, picked)
               /\ pc' = "index_chart"
               /\ UNCHANGED <<outcome, shown>>
  /\ UNCHANGED <<workbook, cache_df, cache_chg, index_loads, chg_loads, index_reads,
                 sale_melt, rent_melt, s_melt, r_melt, df, df_chg, fig, fig2>>

\* lines 70-75 on an empty joined table: min_value and max_value are NaT,
\* which date_input may refuse
SidebarRejected ==
  /\ pc = "sidebar" /\ df = <<>>
  /\ outcome' = "raised" /\ pc' = "end"
  /\ UNCHANGED <<workbook, cache_df, cache_chg, index_loads, chg_loads, shown, index_reads,
                 sale_melt, rent_melt, s_melt, r_melt, df, df_chg,
                 selected_dates, selected_regions, color_map, fig, fig2>>

\* lines 100-163: the index trajectory chart
IndexChart ==
  /\ pc = "index_chart"
  /\ LET df_sel == SortValues(Mask(df, selected_dates[1], selected_dates[2], selected_regions),
                              "region_date")
         res == IndexChartResult(df_sel, selected_regions, color_map, selected_dates)
     IN /\ shown' = IF res.warn THEN shown \cup {"no_data"} ELSE shown
        /\ fig' = res.fig
  /\ pc' = "change_chart"
  /\ UNCHANGED <<workbook, cache_df, cache_chg, index_loads, chg_loads, outcome, index_reads,
                 sale_melt, rent_melt, s_melt, r_melt, df, df_chg,
                 selected_dates, selected_regions, color_map, fig2>>

\* lines 166-223: the change bar chart; df_chg is subscripted as it is
ChangeChart ==
  /\ pc = "change_chart"
  /\ IF ~df_chg.present
     THEN /\ outcome' = "raised"
          /\ UNCHANGED <<shown, fig2>>
     ELSE LET df_chg_sel ==
                SortValues(Mask(df_chg.rows, selected_dates[1], selected_dates[2], selected_regions),
                           "date_region")
          IN /\ outcome' = "done"
             /\ IF IsEmpty(df_chg_sel)
                THEN /\ shown' = shown \cup {"no_chg_data"}
                     /\ fig2' = fig2
                ELSE /\ fig2' = [present |-> TRUE, bars |-> BarRows(df_chg_sel),
                                 height |-> FigureHeight(selected_regions),
                                 title |-> selected_dates]
                     /\ shown' = shown
  /\ pc' = "end"
  /\ UNCHANGED <<workbook, cache_df, cache_chg, index_loads, chg_loads, index_reads,
                 sale_melt, rent_melt, s_melt, r_melt, df, df_chg,
                 selected_dates, selected_regions, color_map, fig>>

\* a widget change or a reload starts the script again, top to bottom
Rerun ==
  /\ pc = "end"
  /\ pc' = "load_data" /\ outcome' = "running" /\ shown' = {}
  /\ index_reads' = 0
  /\ sale_melt' = <<>> /\ rent_melt' = <<>> /\ s_melt' = <<>> /\ r_melt' = <<>>
  /\ df' = <<>> /\ df_chg' = None
  /\ selected_dates' = <<>> /\ selected_regions' = <<>> /\ color_map' = <<>>
  /\ fig' = NoFig /\ fig2' = NoFig2
  /\ UNCHANGED <<workbook, cache_df, cache_chg, index_loads, chg_loads>>

Next ==
  \/ LoadDataHit
  \/ LoadDataMiss
  \/ LoadChangeDataHit
  \/ LoadChangeDataMiss
  \/ Sidebar
  \/ SidebarRejected
  \/ IndexChart
  \/ ChangeChart
  \/ Rerun

Spec == Init /\ [][Next]_vars

\* the two loaders applied to every workbook of LoadWorkbooks
NextLoad ==
  \/ LoadDataMiss
  \/ LoadChangeDataMiss

SpecLoad == InitLoad /\ [][NextLoad]_vars

(* ----------------------- vocabulary of the properties ------------------ *)
Count(seq, x) == Cardinality({i \in DOMAIN seq : seq[i] = x})

\* the same elements with the same multiplicities
SameBag(a, b) ==
  /\ Len(a) = Len(b)
  /\ \A i \in DOMAIN a : Count(a, a[i]) = Count(b, a[i])

\* the index chart of this run has been decided
IndexDone == pc \in {"change_chart", "end"} /\ Len(selected_dates) = 2

InWindow(x) == selected_dates[1] <= x.date /\ x.date <= selected_dates[2]

Point(x) == [date |-> x.date, sale |-> x.sale, rent |-> x.rent]

\* the joined records of region r that the current filter keeps
Kept(table, r) ==
  LET rows == SelectSeq(table, LAMBDA x : x.region = r /\ r \in Range(selected_regions) /\ InWindow(x))
  IN [i \in DOMAIN rows |-> Point(rows[i])]

TracesOf(r, kind) == SelectSeq(fig.traces, LAMBDA t : t.region = r /\ t.kind = kind)

\* the points of region r's path in the figure
Plotted(r) ==
  LET ts == TracesOf(r, "path")
  IN IF ts = <<>> THEN <<>>
     ELSE [i \in DOMAIN ts[1].xs |-> [date |-> ts[1].dates[i], sale |-> ts[1].xs[i], rent |-> ts[1].ys[i]]]

AnnotationsOf(r) == SelectSeq(fig.annotations, LAMBDA a : a.region = r)

\* region r has no entry at all in the figure
NoEntry(r) == \A kind \in {"path", "recent", "START", "direction"} : TracesOf(r, kind) = <<>>

LatestDate(points) == CHOOSE d \in {points[i].date : i \in DOMAIN points} : \A i \in DOMAIN points : d >= points[i].date
EarliestDate(points) == CHOOSE d \in {points[i].date : i \in DOMAIN points} : \A i \in DOMAIN points : d <= points[i].date

(* -------------------------------- C1 ----------------------------------- *)
\* C1: once the index chart is decided, the points plotted for a region are,
\* as a multiset, exactly the joined records of that region that lie in a
\* selected region and in the inclusive date window; nothing else is plotted.
C1_PlottedExactlyFiltered ==
  IndexDone =>
    \A r \in Regions :
      /\ Len(TracesOf(r, "path")) <= 1
      /\ SameBag(Plotted(r), Kept(df, r))

\* a chart whose window cuts records of a selected region at both ends of the
\* window, with another region of the table left unselected
C1_Witness ==
  /\ IndexDone /\ fig.present
  /\ \E r \in Range(selected_regions) :
       /\ \E i \in DOMAIN df : df[i].region = r /\ df[i].date = selected_dates[1]
       /\ \E i \in DOMAIN df : df[i].region = r /\ df[i].date = selected_dates[2]
       /\ \E i \in DOMAIN df : df[i].region = r /\ ~InWindow(df[i])
       /\ Plotted(r) # <<>>
  /\ \E i \in DOMAIN df : df[i].region \notin Range(selected_regions)

(* -------------------------------- C2 ----------------------------------- *)
\* C2: every path of the figure is sorted non-decreasing by date.
C2_PathsSortedByDate ==
  IndexDone =>
    \A k \in DOMAIN fig.traces :
      fig.traces[k].kind = "path" =>
        \A i, j \in DOMAIN fig.traces[k].dates :
          i < j => fig.traces[k].dates[i] <= fig.traces[k].dates[j]

\* a table whose rows run backwards in time, regions selected last-first,
\* and a path over two different dates
C2_Witness ==
  /\ IndexDone /\ fig.present
  /\ \E i, j \in DOMAIN df : i < j /\ df[i].region = df[j].region /\ df[i].date > df[j].date
  /\ Len(selected_regions) >= 2 /\ selected_regions[1] > selected_regions[2]
  /\ \E r \in Regions : \E i, j \in DOMAIN Plotted(r) : Plotted(r)[i].date < Plotted(r)[j].date

C4_EmptyRegionNoEntry ==
  IndexDone =>
    \A r \in Range(selected_regions) :
      /\ Kept(df, r) = <<>> => NoEntry(r) /\ AnnotationsOf(r) = <<>>
      /\ Kept(df, r) # <<>> =>
           /\ TracesOf(r, "path") # <<>>
           /\ TracesOf(r, "recent") # <<>>
           /\ TracesOf(r, "START") # <<>>
           /\ AnnotationsOf(r) # <<>>

\* a selected region that has records in the table, none of them in the window
C4_Witness ==
  /\ IndexDone
  /\ \E r \in Range(selected_regions) :
       /\ Kept(df, r) = <<>>
       /\ \E i \in DOMAIN df : df[i].region = r

(* -------------------------------- C5 ----------------------------------- *)
Keys(table) == {<<table[i].date, table[i].region>> : i \in DOMAIN table}

\* every row of joined pairs a record of a with a record of b on its key,
\* and the keys of joined are the keys a and b share
InnerJoinOf(joined, a, b) ==
  /\ Keys(joined) = Keys(a) \cap Keys(b)
  /\ \A i \in DOMAIN joined :
       /\ \E j \in DOMAIN a :
            a[j].date = joined[i].date /\ a[j].region = joined[i].region /\ a[j].value = joined[i].sale
       /\ \E j \in DOMAIN b :
            b[j].date = joined[i].date /\ b[j].region = joined[i].region /\ b[j].value = joined[i].rent

\* C5: the joined table has a row for a (date, region) key exactly when both
\* normalized tables have the key, each row carries figures of records of
\* both sides, and a key on one side only is dropped without an error.
C5_InnerJoin ==
  /\ pc = "load_change_data" => outcome = "running" /\ InnerJoinOf(df, sale_melt, rent_melt)
  /\ pc = "sidebar" /\ df_chg.present =>
       outcome = "running" /\ InnerJoinOf(df_chg.rows, s_melt, r_melt)

\* a join that keeps a key, drops a key only the sale table has and drops a
\* key only the rent table has
C5_Witness ==
  /\ pc = "load_change_data" /\ df # <<>>
  /\ Keys(sale_melt) \ Keys(rent_melt) # {}
  /\ Keys(rent_melt) \ Keys(sale_melt) # {}

(* -------------------------------- C6 ----------------------------------- *)
\* one record per (row with a date, region) of the sheet, a missing figure as 0
Grid(sheet) ==
  LET kept == SelectSeq(sheet.rows, LAMBDA row : row.id # NaN)
  IN [k \in 1..(Len(kept) * NumRegions) |->
       LET i == ((k - 1) \div NumRegions) + 1
           r == ((k - 1) % NumRegions) + 1
       IN [date |-> kept[i].id, region |-> r,
           value |-> IF kept[i].cells[r] = NaN THEN 0 ELSE kept[i].cells[r]]]

\* C6 as claimed: each of the four sheets is normalized to exactly one record
\* per (date, region) cell of its rows that have a date, a missing figure as
\* 0, and no record comes from a row without a date.
C6_Original ==
  /\ pc = "load_change_data" =>
       SameBag(sale_melt, Grid(workbook.sale)) /\ SameBag(rent_melt, Grid(workbook.rent))
  /\ pc = "sidebar" /\ df_chg.present =>
       SameBag(s_melt, Grid(workbook.sale_chg)) /\ SameBag(r_melt, Grid(workbook.rent_chg))

(* -------------------------------- C7 ----------------------------------- *)
\* both loaders have returned a table
LoadedTables == cache_df.set /\ cache_chg.set /\ cache_chg.value.present

\* the filter keeps no row of the table
FiltersToNothing(table) ==
  ~\E i \in DOMAIN table :
      /\ selected_dates[1] # NaN
      /\ InWindow(table[i])
      /\ table[i].region \in Range(selected_regions)

ChangeUnreadable == ~workbook.sale_chg.parsed \/ ~workbook.rent_chg.parsed

\* C8 as claimed, on a joined table with rows: when the change sheets cannot
\* be read the loader returns
\* None, and the run with a date range chosen still draws the index chart and
\* ends normally, never raising on the absent table.
C8_Original ==
  ChangeUnreadable /\ cache_df.set /\ df # <<>> /\ Len(selected_dates) = 2 =>
    /\ ~df_chg.present
    /\ outcome \in {"running", "done"}
    /\ pc = "end" => outcome = "done" /\ (fig.present \/ "no_data" \in shown)

(* -------------------------------- C9 ----------------------------------- *)
\* an index sheet cannot be read or lacks the identifying column
IndexMalformed ==
  \/ ~workbook.sale.parsed \/ ~workbook.rent.parsed
  \/ ~workbook.sale.has_id \/ ~workbook.rent.has_id

\* C9: on a malformed index sheet load_data fails at its one read of the
\* run: the run ends there, stopped behind the error message or on the
\* raised KeyError, nothing is cached, and no joined table, no change
\* table, no filter and no chart exists in that run.
C9_LoadAborts ==
  IndexMalformed =>
    /\ pc \in {"load_data", "end"}
    /\ index_reads <= 1
    /\ ~cache_df.set /\ index_loads = 0
    /\ df = <<>> /\ rent_melt = <<>> /\ ~df_chg.present /\ ~cache_chg.set
    /\ selected_dates = <<>> /\ selected_regions = <<>>
    /\ ~fig.present /\ ~fig2.present
    /\ pc = "end" =>
         /\ index_reads = 1
         /\ outcome \in {"stopped", "raised"}
         /\ outcome = "stopped" => "load_error" \in shown
         /\ outcome = "stopped" <=> (~workbook.sale.parsed \/ ~workbook.rent.parsed)

\* a run ended by the KeyError of a rent sheet without the identifying column
C9_Witness ==
  /\ pc = "end" /\ outcome = "raised"
  /\ workbook.sale.parsed /\ workbook.sale.has_id
  /\ workbook.rent.parsed /\ ~workbook.rent.has_id
  /\ Len(workbook.rent.rows) > 0

(* -------------------------------- C10 ---------------------------------- *)
\* the figure the current filter gives on the cached joined table
FigureOf(table) ==
  IndexChartResult(
    SortValues(Mask(table, selected_dates[1], selected_dates[2], selected_regions), "region_date"),
    selected_regions, color_map, selected_dates).fig

\* C10: each base table is computed once; a cached table is never replaced
\* or changed by a later step or run; every run works on the cached tables,
\* and its figure is the one the current filter gives on the cached table.
C10_BaseTablesFrozen ==
  /\ [](index_loads <= 1 /\ chg_loads <= 1)
  /\ [][(cache_df.set => cache_df' = cache_df) /\ (cache_chg.set => cache_chg' = cache_chg)]_vars
  /\ [](pc \in {"load_change_data", "sidebar", "index_chart", "change_chart"} =>
          cache_df.set /\ df = cache_df.value)
  /\ [](pc \in {"sidebar", "index_chart", "change_chart"} =>
          cache_chg.set /\ df_chg = cache_chg.value)
  /\ [](IndexDone => fig = FigureOf(cache_df.value))

\* a later run, served from the cache, that has drawn a figure
C10_Witness ==
  /\ IndexDone /\ fig.present
  /\ index_loads = 1 /\ sale_melt = <<>>
  /\ Len(Plotted(selected_regions[1])) < Len(SelectSeq(df, LAMBDA x : x.region = selected_regions[1]))

====
